---- MODULE Spec2Model ----
(***************************************************************************)
(* Shard-based sequence building of data_pipeline/build_sequences.py,      *)
(* with the raw folder layout produced by data_pipeline/tecd_downloader.py.*)
(*                                                                         *)
(* A polars frame is modelled as the sequence of its rows, a lazy plan as  *)
(* the relation it denotes.  The operations whose result polars leaves     *)
(* open (sort without maintain_order, group_by without maintain_order) are *)
(* a choice over every result the library may return.                      *)
(***************************************************************************)
EXTENDS Integers, Sequences, FiniteSets, TLC

\* ------------------------------------------------------------------ bounds
\* number of shards of the run (the repository configures 50)
NUM_SHARDS == 2
\* total number of raw event rows over all domain folders
MaxEvents == 2
\* number of pipeline runs into the same output directory
MaxRuns == 2

\* ------------------------------------------------------------ input values
USERS == {1, 2}
TIMES == {50, 75}
ENTITIES == {1}

\* contents of vocab.parquet the runs are tried with: (token_str, token_id)
VocabSparse == << <<"MP_1", 10>>, <<"RT_5", 20>> >>
VocabDense == << <<"MP_1", 10>>, <<"RT_1", 20>>, <<"BR_1", 30>> >>
VOCAB_FILES == {VocabSparse, VocabDense}

Shards == 0 .. (NUM_SHARDS - 1)

\* values pl.col("user_id").hash() may give: one per residue, above NUM_SHARDS
HashValues == NUM_SHARDS .. (2 * NUM_SHARDS - 1)

\* a lazy frame is [none |-> FALSE, rows |-> its relation]; None is no frame
None == [none |-> TRUE, rows |-> <<>>]
LazyFrame(rows) == [none |-> FALSE, rows |-> rows]

\* ------------------------------------------------------ tecd_downloader.py
\* _get_domain_day_patterns: the folders (under dataset_path) the daily
\* files of a domain are stored in
_get_domain_day_patterns(domain) ==
    IF domain \in {"retail", "marketplace", "offers"}
    THEN <<domain \o "/events">>
    ELSE IF domain = "payments"
    THEN <<domain \o "/events", domain \o "/receipts">>
    ELSE IF domain = "reviews"
    THEN <<domain>>
    ELSE <<>>

\* --------------------------------------------------------- build_sequences.py
\* process_shards: domains = {RAW_DIR/"marketplace": "MP_", ...}, in dict order
domains ==
    << [folder |-> "marketplace", prefix |-> "MP_"],
       [folder |-> "retail",      prefix |-> "RT_"],
       [folder |-> "offers",      prefix |-> "OF_"],
       [folder |-> "reviews",     prefix |-> "BR_"] >>

\* the folder get_domain_plan globs for *.pq files
EventsDir(domain_folder) == domain_folder \o "/events"

\* every folder of the raw tree that the downloader fills or the pipeline reads
Folders ==
    UNION { { _get_domain_day_patterns(domains[i].folder)[j] :
                j \in DOMAIN _get_domain_day_patterns(domains[i].folder) } :
            i \in DOMAIN domains }
    \cup { EventsDir(domains[i].folder) : i \in DOMAIN domains }

\* the rows a daily file of a domain holds: reviews carry brand_id, the
\* other domains item_id
RowsOf(domain) ==
    IF domain = "reviews"
    THEN [user_id : USERS, timestamp : TIMES, brand_id : ENTITIES]
    ELSE [user_id : USERS, timestamp : TIMES, item_id : ENTITIES]

VARIABLES
    raw,          \* folder -> rows of its *.pq files, in read order
    vocab_file,   \* rows of vocab.parquet
    hash_of,      \* user_id -> value of pl.col("user_id").hash()
    io,           \* outcome the storage gives the next file I/O of the run
    pc,           \* position of process_shards
    vocab_map,    \* the dict load_vocab_map returned
    shard_id,     \* loop variable of process_shards
    sequences,    \* grouped frame being written
    files,        \* shard_id -> state of OUTPUT_DIR/shard_{shard_id}.parquet
    run,          \* number of the current run
    prev          \* inputs and output directory of the previous completed run

vars == <<raw, vocab_file, hash_of, io, pc, vocab_map, shard_id,
          sequences, files, run, prev>>

\* ------------------------------------------------------------------ helpers
RECURSIVE Flatten(_)
Flatten(ss) == IF ss = <<>> THEN <<>> ELSE Head(ss) \o Flatten(Tail(ss))

Digits == <<"0", "1", "2", "3", "4", "5", "6", "7", "8", "9">>

\* .cast(pl.Utf8) of an integer column: its decimal digits
RECURSIVE CastUtf8(_)
CastUtf8(n) ==
    IF n < 10 THEN Digits[n + 1]
    ELSE CastUtf8(n \div 10) \o Digits[(n % 10) + 1]

\* load_vocab_map: dict(zip(token_str, token_id)); a repeated key keeps the
\* last id
load_vocab_map(file) ==
    [ k \in { file[i][1] : i \in DOMAIN file } |->
        LET last == CHOOSE i \in DOMAIN file :
                       /\ file[i][1] = k
                       /\ \A j \in DOMAIN file : file[j][1] = k => j <= i
        IN  file[last][2] ]

\* replace() with 0 instead of the given default for absent keys
ReplaceDefaultZero(key, mapping, default) ==
    IF key \in DOMAIN mapping THEN mapping[key] ELSE 0

\* Expr.replace(mapping, default=4)
Replace(key, mapping, default) ==
    IF key \in DOMAIN mapping THEN mapping[key] ELSE default

\* get_domain_plan: None when the events folder holds no *.pq file, else the
\* relation (user_id, timestamp, token_id)
get_domain_plan(domain_folder, domain_prefix, vmap) ==
    LET file_rows == raw[EventsDir(domain_folder)]
        entity_col(r) == IF domain_folder = "reviews" THEN r.brand_id ELSE r.item_id
        token_key(r) == domain_prefix \o CastUtf8(entity_col(r))
    IN  IF file_rows = <<>> THEN None
        ELSE LazyFrame(
               [ i \in DOMAIN file_rows |->
                   [ user_id   |-> file_rows[i].user_id,
                     timestamp |-> file_rows[i].timestamp,
                     token_id  |-> Replace(token_key(file_rows[i]), vmap, 4) ] ])

\* (pl.col("user_id").hash() % NUM_SHARDS)
shard_of(user_id) == hash_of[user_id] % NUM_SHARDS

\* lazy_df.filter(hash % NUM_SHARDS == shard_id)
FilterShard(lazy_df, s) ==
    LazyFrame(SelectSeq(lazy_df.rows, LAMBDA r : shard_of(r.user_id) = s))

\* the list `plans` of one loop iteration: the filtered plans of the domains
\* that have one, in the order of `domains`
Plans(s, vmap) ==
    LET lazy_dfs == [ i \in DOMAIN domains |->
                        get_domain_plan(domains[i].folder, domains[i].prefix, vmap) ]
        present == SelectSeq(lazy_dfs, LAMBDA lazy_df : lazy_df # None)
    IN  [ k \in DOMAIN present |-> FilterShard(present[k], s) ]

\* pl.concat(plans).collect()
Collect(plans) == Flatten([ k \in DOMAIN plans |-> plans[k].rows ])

\* df.sort(["user_id", "timestamp"]): maintain_order is left False, so rows
\* with equal keys may come out in any order
RowLeq(a, b) ==
    \/ a.user_id < b.user_id
    \/ a.user_id = b.user_id /\ a.timestamp <= b.timestamp

\* the frame left in union order
SortSkipped(df) == {df}

SortResults(df) ==
    { [ i \in DOMAIN df |-> df[p[i]] ] :
        p \in { q \in Permutations(DOMAIN df) :
                  \A i, j \in DOMAIN df : i < j => RowLeq(df[q[i]], df[q[j]]) } }

\* one group of group_by("user_id").agg([token_id -> sequence,
\* timestamp -> timestamps]): the rows of the user in frame order
GroupRow(df, u) ==
    LET mine == SelectSeq(df, LAMBDA r : r.user_id = u)
    IN  [ user_id    |-> u,
          sequence   |-> [ i \in DOMAIN mine |-> mine[i].token_id ],
          timestamps |-> [ i \in DOMAIN mine |-> mine[i].timestamp ] ]

\* df.group_by("user_id").agg(...): maintain_order is left False, so the
\* groups may come out in any order
GroupResults(df) ==
    LET users == { df[i].user_id : i \in DOMAIN df }
        n == Cardinality(users)
    IN  { [ k \in 1 .. n |-> GroupRow(df, order[k]) ] :
            order \in { o \in [1 .. n -> users] :
                          \A a, b \in 1 .. n : a # b => o[a] # o[b] } }

\* the height test left out
SkippedWithoutPlansOnly(plans, df) == plans = <<>>

\* `if not plans: continue` and `if df_shard.height == 0: continue`
ShardIsSkipped(plans, df) == plans = <<>> \/ Len(df) = 0

\* output_file = OUTPUT_DIR / f"shard_{shard_id}.parquet": the files of the
\* output directory are named by the shard id in their path
\* (one path for every shard: the shard id left out of the file name)
output_file_shared(s) == 0
output_file(s) == s

Absent == [state |-> "absent", rows |-> <<>>]
Partial == [state |-> "partial", rows |-> <<>>]
Complete(rows) == [state |-> "complete", rows |-> rows]

\* what `io` may be once the run stands at position p
IoOutcomes(p) == IF p \in {"loop", "write"} THEN {"ok", "error"} ELSE {"ok"}

\* the position after the body of the loop for shard_id
NextPc == IF shard_id + 1 = NUM_SHARDS THEN "done" ELSE "loop"

\* ------------------------------------------------------------------- inputs
EmptyRaw == [ f \in Folders |-> <<>> ]

TotalRows(r) ==
    LET RECURSIVE Sum(_)
        Sum(fs) == IF fs = {} THEN 0
                   ELSE LET f == CHOOSE g \in fs : TRUE
                        IN  Len(r[f]) + Sum(fs \ {f})
    IN  Sum(Folders)

\* a row together with the index (in `domains`) of the domain it belongs to
DomainRows ==
    UNION { { <<i, row>> : row \in RowsOf(domains[i].folder) } : i \in DOMAIN domains }

\* raw trees with at most n rows, every domain stored where the downloader
\* puts it
RECURSIVE RawTrees(_)
RawTrees(n) ==
    IF n = 0 THEN {EmptyRaw}
    ELSE LET smaller == RawTrees(n - 1)
             full == { r \in smaller : TotalRows(r) = n - 1 }
         IN  smaller \cup
             { [ r EXCEPT ![_get_domain_day_patterns(domains[e[1]].folder)[1]] =
                            Append(@, e[2]) ] :
                 r \in full, e \in DomainRows }

\* --------------------------------------------------------------------- Init
Init ==
    /\ raw \in RawTrees(MaxEvents)
    /\ vocab_file \in VOCAB_FILES
    /\ hash_of \in [USERS -> HashValues]
    /\ io = "ok"
    /\ pc = "start"
    /\ vocab_map = << >>
    /\ shard_id = 0
    /\ sequences = <<>>
    /\ files = [ s \in Shards |-> Absent ]
    /\ run = 1
    /\ prev = [valid |-> FALSE, raw |-> EmptyRaw, files |-> [ s \in Shards |-> Absent ]]

\* ------------------------------------------------------------------ actions
\* process_shards, line 76: vocab_map = load_vocab_map()
LoadVocab ==
    /\ pc = "start"
    /\ vocab_map' = load_vocab_map(vocab_file)
    /\ shard_id' = 0
    /\ pc' = IF NUM_SHARDS = 0 THEN "done" ELSE "loop"
    /\ io' \in IoOutcomes(pc')
    /\ UNCHANGED <<raw, vocab_file, hash_of, sequences, files, run, prev>>

\* reading the files of the plans raises in this iteration
ReadFaultNow(plans) == plans # <<>> /\ io = "error"

\* loop body, lines 89-107, for a shard that is skipped
SkipShard ==
    /\ pc = "loop"
    /\ LET plans == Plans(shard_id, vocab_map)
       IN  /\ ~ReadFaultNow(plans)
           /\ ShardIsSkipped(plans, Collect(plans))
    /\ shard_id' = shard_id + 1
    /\ pc' = NextPc
    /\ io' \in IoOutcomes(pc')
    /\ UNCHANGED <<raw, vocab_file, hash_of, vocab_map, sequences, files, run, prev>>

\* loop body, lines 89-104, when reading a domain's files raises: the
\* exception leaves process_shards
ReadFails ==
    /\ pc = "loop"
    /\ ReadFaultNow(Plans(shard_id, vocab_map))
    /\ pc' = "aborted"
    /\ UNCHANGED <<raw, vocab_file, hash_of, io, vocab_map, shard_id,
                   sequences, files, run, prev>>

\* loop body, lines 89-121, up to the point where write_parquet has created
\* shard_{shard_id}.parquet and is writing into it
BuildShard ==
    /\ pc = "loop"
    /\ LET plans == Plans(shard_id, vocab_map)
           df_shard == Collect(plans)
       IN  /\ ~ReadFaultNow(plans)
           /\ ~ShardIsSkipped(plans, df_shard)
           /\ \E sorted \in SortResults(df_shard) :
                sequences' \in GroupResults(sorted)
    /\ files' = [files EXCEPT ![output_file(shard_id)] = Partial]
    /\ pc' = "write"
    /\ io' \in IoOutcomes(pc')
    /\ UNCHANGED <<raw, vocab_file, hash_of, vocab_map, shard_id, run, prev>>

\* write_parquet returns, lines 121-127
FinishWrite ==
    /\ pc = "write"
    /\ io = "ok"
    /\ files' = [files EXCEPT ![output_file(shard_id)] = Complete(sequences)]
    /\ sequences' = <<>>
    /\ shard_id' = shard_id + 1
    /\ pc' = NextPc
    /\ io' \in IoOutcomes(pc')
    /\ UNCHANGED <<raw, vocab_file, hash_of, vocab_map, run, prev>>

\* write_parquet raises (or the process dies) while the file is being written
WriteFails ==
    /\ pc = "write"
    /\ io = "error"
    /\ pc' = "aborted"
    /\ sequences' = <<>>
    /\ UNCHANGED <<raw, vocab_file, hash_of, io, vocab_map, shard_id, files,
                   run, prev>>

Next ==
    \/ LoadVocab
    \/ SkipShard
    \/ ReadFails
    \/ BuildShard
    \/ FinishWrite
    \/ WriteFails

Spec == Init /\ [][Next]_vars

\* ------------------------------------------------- runs after the first one
\* process_shards is started again on the same raw tree and output directory
Rerun ==
    /\ pc = "done"
    /\ run < MaxRuns
    /\ prev' = [valid |-> TRUE, raw |-> raw, files |-> files]
    /\ run' = run + 1
    /\ pc' = "start"
    /\ UNCHANGED <<raw, vocab_file, hash_of, io, vocab_map, shard_id, sequences, files>>

\* the files of one raw folder are removed, then process_shards is started
\* again on the same output directory
RerunAfterRemoval ==
    /\ pc = "done"
    /\ run < MaxRuns
    /\ \E f \in Folders :
         /\ raw[f] # <<>>
         /\ raw' = [raw EXCEPT ![f] = <<>>]
    /\ prev' = [valid |-> TRUE, raw |-> raw, files |-> files]
    /\ run' = run + 1
    /\ pc' = "start"
    /\ UNCHANGED <<vocab_file, hash_of, io, vocab_map, shard_id, sequences, files>>

\* runs that complete: the storage fails no read and no write
NextRerun ==
    \/ (LoadVocab \/ SkipShard \/ BuildShard \/ FinishWrite) /\ io' = "ok"
    \/ Rerun
    \/ RerunAfterRemoval

InitRerun == Init /\ vocab_file = VocabDense

SpecRerun == InitRerun /\ [][NextRerun]_vars

\* ------------------------------------------------------------ claim helpers
Range(s) == { s[i] : i \in DOMAIN s }

\* the (token_id, timestamp) pairs of one output row, position by position
RowPairs(row) ==
    [ i \in 1 .. Len(row.sequence) |-> <<row.sequence[i], row.timestamps[i]>> ]

Occurrences(s, x) == Cardinality({ i \in DOMAIN s : s[i] = x })

SameBag(s, t) ==
    /\ Len(s) = Len(t)
    /\ \A x \in Range(s) \cup Range(t) : Occurrences(s, x) = Occurrences(t, x)

\* the id the vocabulary file gives a token key, 4 when the file has no such key
ExpectedTokenId(prefix, entity) ==
    LET key == prefix \o CastUtf8(entity)
    IN  IF \E i \in DOMAIN vocab_file : vocab_file[i][1] = key
        THEN vocab_file[CHOOSE i \in DOMAIN vocab_file : vocab_file[i][1] = key][2]
        ELSE 4

EntityOf(i, r) == IF domains[i].folder = "reviews" THEN r.brand_id ELSE r.item_id

\* the events of user u in folder[i] for every configured domain i, as
\* (expected token_id, timestamp) pairs, domain after domain
EventPairs(u, folder) ==
    Flatten([ i \in DOMAIN domains |->
        LET mine == SelectSeq(raw[folder[i]], LAMBDA r : r.user_id = u)
        IN  [ k \in DOMAIN mine |->
                <<ExpectedTokenId(domains[i].prefix, EntityOf(i, mine[k])),
                  mine[k].timestamp>> ] ])

\* where the raw tree holds the daily files of domain i
StoredAt == [ i \in DOMAIN domains |-> _get_domain_day_patterns(domains[i].folder)[1] ]
\* where the pipeline looks for them
ReadAt == [ i \in DOMAIN domains |-> EventsDir(domains[i].folder) ]

\* the pairs the output file of shard s holds for user u
OutputPairs(s, u) ==
    Flatten([ k \in DOMAIN files[s].rows |->
        IF files[s].rows[k].user_id = u THEN RowPairs(files[s].rows[k]) ELSE <<>> ])

\* the materialised frame of shard s in the current run
ShardFrame(s) == Collect(Plans(s, vocab_map))

\* the rows of user u in the frame of shard s, as pairs, in frame order
FramePairs(s, u) ==
    LET mine == SelectSeq(ShardFrame(s), LAMBDA r : r.user_id = u)
    IN  [ k \in DOMAIN mine |-> <<mine[k].token_id, mine[k].timestamp>> ]

\* every output row there is: of the finished files and of the frame being
\* written, each with the shard it belongs to
OutputRows ==
    UNION { { <<s, files[s].rows[k]>> : k \in DOMAIN files[s].rows } : s \in Shards }
    \cup (IF pc = "write" THEN { <<shard_id, sequences[k]>> : k \in DOMAIN sequences }
          ELSE {})

\* ------------------------------------------------------------------- claims
\* C1 (co-location): once process_shards has completed, every input event of
\* every user, in every configured domain, is in the output of the shard
\* shard_of(user) exactly once, and in the output of no other shard.
C1_CoLocation ==
    pc = "done" =>
      \A u \in USERS : \A s \in Shards :
        IF s = shard_of(u)
        THEN SameBag(OutputPairs(s, u), EventPairs(u, StoredAt))
        ELSE OutputPairs(s, u) = <<>>

\* C2 (ordering): in every output row, sequence and timestamps have the same
\* length, timestamps is non-decreasing, and the pairs (sequence[i],
\* timestamps[i]) are exactly the (token_id, timestamp) rows the user has in
\* the frame of the shard.
C2_Ordering ==
    \A o \in OutputRows :
      LET s == o[1]
          row == o[2]
      IN  /\ Len(row.sequence) = Len(row.timestamps)
          /\ \A i, j \in DOMAIN row.timestamps :
               i < j => row.timestamps[i] <= row.timestamps[j]
          /\ SameBag(RowPairs(row), FramePairs(s, row.user_id))

\* a written row whose two events stood in descending time order in the frame
C2_Witness ==
    \E s \in Shards : \E k \in DOMAIN files[s].rows :
      LET row == files[s].rows[k]
          fp == FramePairs(s, row.user_id)
      IN  /\ files[s].state = "complete"
          /\ Len(row.timestamps) = 2
          /\ row.timestamps[1] < row.timestamps[2]
          /\ fp[1][2] > fp[2][2]
          /\ row.sequence[1] # row.sequence[2]

\* C3 (token resolution): the vocabulary in use is the one the file gives, and
\* every token_id written for an event is the id the file gives its token key
\* (prefix of the domain, then the entity id), or 4 when the file has no such
\* key.
C3_TokenResolution ==
    /\ pc # "start" =>
         /\ DOMAIN vocab_map = { vocab_file[i][1] : i \in DOMAIN vocab_file }
         /\ \A i \in DOMAIN vocab_file : vocab_map[vocab_file[i][1]] = vocab_file[i][2]
    /\ \A o \in OutputRows :
         LET u == o[2].user_id
         IN  SameBag(RowPairs(o[2]), EventPairs(u, ReadAt))

\* a written row that holds the default id for an absent key next to an id
\* taken from the vocabulary
C3_Witness ==
    \E s \in Shards : \E k \in DOMAIN files[s].rows :
      LET row == files[s].rows[k]
      IN  /\ files[s].state = "complete"
          /\ 4 \in Range(row.sequence)
          /\ \E t \in Range(row.sequence) : t \in { vocab_file[i][2] : i \in DOMAIN vocab_file }
          /\ \E i \in DOMAIN domains : \E r \in Range(raw[ReadAt[i]]) :
               /\ r.user_id = row.user_id
               /\ (domains[i].prefix \o CastUtf8(EntityOf(i, r))) \notin DOMAIN vocab_map

\* C4 (idempotence): a run that completes on the raw tree, vocabulary and
\* configuration of the completed run before it leaves every shard file as
\* that run left it: same files, same rows in the same order, same lists.
C4_Idempotence ==
    (pc = "done" /\ prev.valid /\ prev.raw = raw) => files = prev.files

\* C5 (emptiness): the loop body for a shard with no matching row (no domain
\* has a plan, or the filtered union has no row), when no read of a plan's
\* files fails, writes nothing, raises nothing and goes on to shard_id + 1.
C5_EmptyShardSkipped ==
    [][ ( /\ pc = "loop"
          /\ Len(ShardFrame(shard_id)) = 0
          /\ ~ReadFaultNow(Plans(shard_id, vocab_map)) )
        => ( /\ files' = files
             /\ sequences' = sequences
             /\ shard_id' = shard_id + 1
             /\ pc' = NextPc ) ]_vars

\* the run has passed a shard whose domains have files, none of them with a
\* row of the shard, and has left no file for it
C5_Witness ==
    \E s \in Shards :
      /\ s < shard_id
      /\ pc \in {"loop", "done"}
      /\ Plans(s, vocab_map) # <<>>
      /\ Len(ShardFrame(s)) = 0
      /\ files[s] = Absent

\* C6 (failure isolation): when the run has ended, with an I/O failure in
\* shard s or without one, every shard other than s that has rows has been
\* processed and its file written.
C6_FailureIsolation ==
    pc \in {"done", "aborted"} =>
      \A t \in Shards :
        (~(pc = "aborted" /\ t = shard_id) /\ Len(ShardFrame(t)) > 0)
          => files[t].state = "complete"

\* C7 (atomic publish): at every point the file at a shard's output path is
\* absent or completely written.
C7_AtomicPublish ==
    \A s \in Shards : files[s].state \in {"absent", "complete"}

\* C8 (event location): get_domain_plan returns None for a domain only when
\* the folder that holds the domain's daily files ({domain}/events, and
\* reviews itself for reviews) has no file.
C8_DomainLocation ==
    pc = "loop" =>
      \A i \in DOMAIN domains :
        get_domain_plan(domains[i].folder, domains[i].prefix, vocab_map) = None
          => raw[StoredAt[i]] = <<>>

\* rows sorted by timestamp, rows of equal timestamp in their given order
RECURSIVE StableByTime(_)
StableByTime(ps) ==
    IF ps = <<>> THEN <<>>
    ELSE LET rest == StableByTime(Tail(ps))
             before == SelectSeq(rest, LAMBDA q : q[2] < Head(ps)[2])
             after == SelectSeq(rest, LAMBDA q : q[2] >= Head(ps)[2])
         IN  before \o <<Head(ps)>> \o after

\* C9 (stable tie-break): every written row lists the user's events by
\* timestamp, events of equal timestamp in the order they have in the union
\* of the domain plans.
C9_StableTieBreak ==
    \A o \in OutputRows :
      RowPairs(o[2]) = StableByTime(FramePairs(o[1], o[2].user_id))

\* every grouped frame the loop body may produce for shard s in this run
PossibleOutputs(s) ==
    UNION { GroupResults(sorted) : sorted \in SortResults(ShardFrame(s)) }

\* C10 (latest run only): after completed runs, a shard's file exists exactly
\* when the shard had a row in the most recent run, and then holds that run's
\* sequences.
C10_LatestRunOnly ==
    pc = "done" =>
      \A s \in Shards :
        /\ files[s].state # "absent" <=> Len(ShardFrame(s)) > 0
        /\ files[s].state # "absent" => files[s].rows \in PossibleOutputs(s)

\* C10 as the code has it: after completed runs, a shard with a row in the
\* most recent run has a file that holds that run's sequences, and a shard
\* without one has what the run before left at its path (nothing, when there
\* was no run before).
C10_LatestRunOverwrites ==
    pc = "done" =>
      \A s \in Shards :
        IF Len(ShardFrame(s)) > 0
        THEN /\ files[s].state = "complete"
             /\ files[s].rows \in PossibleOutputs(s)
        ELSE files[s] = (IF prev.valid THEN prev.files[s] ELSE Absent)

\* a second run has completed, one shard has no row in it and still has the
\* file of the first run, another shard was written again
C10_Witness ==
    /\ pc = "done"
    /\ prev.valid
    /\ \E s \in Shards :
         /\ Len(ShardFrame(s)) = 0
         /\ files[s].state = "complete"
         /\ files[s] = prev.files[s]
    /\ \E s \in Shards :
         /\ Len(ShardFrame(s)) > 0
         /\ files[s].state = "complete"

====
